---- MODULE Spec2Model ----
(***************************************************************************)
(* Model of enhancedminmax (src/minmax.h): the cross-type comparison       *)
(* functors lower_than / higher_than, the right-to-left reduction          *)
(* find_lowest with its signed_in_unsigned_value intermediate, and the     *)
(* public entry points min / max.                                          *)
(*                                                                         *)
(* Integer types are modelled by signedness and conversion rank; only the  *)
(* ranks of int and long long are modelled (types below int are promoted   *)
(* by the language before any comparison and are left out).  Widths are    *)
(* scaled down (IntBits, LongBits) and every conversion is computed        *)
(* modulo 2^width as the language defines it.                              *)
(***************************************************************************)
EXTENDS Integers, Sequences, FiniteSets, TLC

VARIABLES
    op,     \* "min" or "max": the entry point called
    args,   \* the argument list: <<[t, val, cat]>>
    mem,    \* current content of each argument's storage
    pos,    \* index of the head `l` of the find_lowest frame about to run
    pc,     \* "fold", "return", "done", "incremented" | "cmp", "cmpdone"
    res,    \* what the last finished find_lowest frame returned
    ret,    \* what min/max returned to the caller
    cmp,    \* the last call of the comparison functor: operands and outcome
    drv     \* the driver main(): loop counter, lines written, exit status

vars == <<op, args, mem, pos, pc, res, ret, cmp, drv>>

----------------------------------------------------------------------------
(* Bounds of the model *)

\* width of int / unsigned int in the model
IntBits == 3
\* width of long long / unsigned long long in the model
LongBits == 5
\* longest argument list
MaxArgs == 3

----------------------------------------------------------------------------
(* Integer types and conversions *)

TInt    == [signed |-> TRUE,  rank |-> 1]
TUInt   == [signed |-> FALSE, rank |-> 1]
TLLong  == [signed |-> TRUE,  rank |-> 2]
TULLong == [signed |-> FALSE, rank |-> 2]

Types == {TInt, TUInt, TLLong, TULLong}

RECURSIVE Pow2(_)
Pow2(n) == IF n = 0 THEN 1 ELSE 2 * Pow2(n - 1)

\* sizeof(T) * CHAR_BIT
Bits(t) == IF t.rank = 1 THEN IntBits ELSE LongBits

\* std::numeric_limits<T>::min() / max()
TMin(t) == IF t.signed THEN 0 - Pow2(Bits(t) - 1) ELSE 0
TMax(t) == IF t.signed THEN Pow2(Bits(t) - 1) - 1 ELSE Pow2(Bits(t)) - 1

RangeOf(t) == TMin(t) .. TMax(t)

\* static_cast<T>(v) and every implicit integral conversion: v modulo 2^width,
\* read back in T
Cast(t, v) ==
    LET m == v % Pow2(Bits(t))
    IN  IF t.signed /\ m > TMax(t) THEN m - Pow2(Bits(t)) ELSE m

\* std::make_unsigned_t<T> / std::make_signed_t<T>
make_unsigned(t) == [signed |-> FALSE, rank |-> t.rank]
make_signed(t)   == [signed |-> TRUE,  rank |-> t.rank]

\* The usual arithmetic conversions: the type of `c ? a : b` and the type in
\* which `a < b` is evaluated, for operands of types a and b.
CommonType(a, b) ==
    IF a = b THEN a
    ELSE IF a.signed = b.signed THEN (IF a.rank >= b.rank THEN a ELSE b)
    ELSE LET u == IF a.signed THEN b ELSE a
             s == IF a.signed THEN a ELSE b
         IN  IF u.rank >= s.rank THEN u
             ELSE IF Bits(s) > Bits(u) THEN s
             ELSE make_unsigned(s)

\* highest_unsigned_type_t<L, R>
highest_unsigned_type(L, R) ==
    IF Bits(L) >= Bits(R) THEN make_unsigned(L) ELSE make_unsigned(R)

\* the built-in `l < r` on two integers: both converted to the common type
NativeLess(l, r) ==
    LET c == CommonType(l.t, r.t)
    IN  Cast(c, l.val) < Cast(c, r.val)

----------------------------------------------------------------------------
(* The comparison functors; l and r are typed values [t, val] *)

\* the classic slip: leave mixed signedness to the built-in comparison
lower_than_native(l, r) == NativeLess(l, r)

lower_than(l, r) ==
    IF l.t.signed = r.t.signed THEN NativeLess(l, r)
    ELSE IF l.t.signed
    THEN LET H == highest_unsigned_type(l.t, r.t)
         IN  l.val < 0 \/ Cast(H, l.val) < Cast(H, r.val)
    ELSE LET H == highest_unsigned_type(l.t, r.t)
         IN  r.val >= 0 /\ Cast(H, l.val) < Cast(H, r.val)

higher_than(l, r) == lower_than(r, l)

\* the functor `less` that min / max hand to find_lowest
Less(o, l, r) == IF o = "min" THEN lower_than(l, r) ELSE higher_than(l, r)

TV(t, v) == [t |-> t, val |-> v]

----------------------------------------------------------------------------
(* Arguments and their deduced template parameter L *)

\* how an argument is passed: a mutable named variable, a const named
\* variable, or a temporary
Cats == {"lvalue", "const_lvalue", "rvalue"}

\* L is T& / const T& for a named variable and T for a temporary, so the
\* type traits applied to L itself see an integer only for a temporary
is_integral_v(h) == h.cat = "rvalue"
is_signed_v(h)   == h.cat = "rvalue" /\ h.t.signed

\* std::forward<L>(l) returned through decltype(auto)
RefCat(c) == IF c = "lvalue" THEN "lref"
             ELSE IF c = "const_lvalue" THEN "clref" ELSE "rref"

\* A value travelling up the recursion.  kind "siu" is a
\* signed_in_unsigned_value<t> {val, flag}; kind "plain" is an integer of
\* type t.  cat is how the frame returned it, alias the argument whose
\* storage it refers to (0: none), dangling whether it is a reference to a
\* temporary of a frame that has returned.
Result(k, t, v, f, c, a, d) ==
    [kind |-> k, t |-> t, val |-> v, flag |-> f, cat |-> c, alias |-> a,
     dangling |-> d]

NoRes == Result("none", TInt, 0, FALSE, "none", 0, FALSE)
NoCmp == [f |-> "none", l |-> TV(TInt, 0), r |-> TV(TInt, 0), out |-> FALSE]
NoDrv == [i |-> 0, lines |-> 0, status |-> "none"]

\* signed_in_unsigned_value(value, is_signed), Unsigned deduced as t
signed_in_unsigned_value(t, v, f) ==
    Result("siu", t, v, f, "prvalue", 0, FALSE)

\* signed_in_unsigned_value::getOriginal()
getOriginal(R) == Cast(make_signed(R.t), R.val)

\* one call less(l, r) of the functor, with what it answered
CmpCall(o, l, r) ==
    [f |-> IF o = "min" THEN "lower_than" ELSE "higher_than",
     l |-> l, r |-> r, out |-> Less(o, l, r)]

----------------------------------------------------------------------------
(* One frame of find_lowest(less, l, r...): h is the head l (argument i),  *)
(* R what the recursive call on r... returned, bound to `auto&& right`.    *)

\* slip: the single argument returned by value
find_lowest_base_copy(h, i) ==
    Result("plain", h.t, h.val, FALSE, "prvalue", 0, FALSE)

\* sizeof...(r) == 0: return std::forward<L>(l)
find_lowest_base(h, i) ==
    Result("plain", h.t, h.val, FALSE, RefCat(h.cat), i, FALSE)

\* the comparison of the branch taken when right is a signed_in_unsigned_value
TaggedCmp(o, h, R) ==
    IF R.flag
    THEN CmpCall(o, TV(h.t, h.val), TV(make_signed(R.t), getOriginal(R)))
    ELSE CmpCall(o, TV(h.t, h.val), TV(R.t, R.val))

\* the comparison of the other branch: less(std::forward<L>(l), right)
PlainCmp(o, h, R) == CmpCall(o, TV(h.t, h.val), TV(R.t, R.val))

\* slip: the flag is not consulted and right.value is always what is compared
find_lowest_tagged_raw(o, h, i, R) ==
    LET is_lower  == CmpCall(o, TV(h.t, h.val), TV(R.t, R.val)).out
        c         == CommonType(h.t, R.t)
        value     == IF is_lower THEN Cast(c, h.val) ELSE Cast(c, R.val)
        is_signed == IF is_lower THEN is_signed_v(h) ELSE R.flag
    IN  signed_in_unsigned_value(c, value, is_signed)

\* right is a signed_in_unsigned_value
find_lowest_tagged(o, h, i, R) ==
    LET is_lower  == TaggedCmp(o, h, R).out
        c         == CommonType(h.t, R.t)
        value     == IF is_lower THEN Cast(c, h.val) ELSE Cast(c, R.val)
        is_signed == IF is_lower THEN is_signed_v(h) ELSE R.flag
    IN  signed_in_unsigned_value(c, value, is_signed)

\* l and right are integers of differing signedness, as the traits see them
find_lowest_convert(o, h, i, R) ==
    LET is_lower  == PlainCmp(o, h, R).out
        c         == CommonType(h.t, R.t)
        value     == IF is_lower THEN Cast(c, h.val) ELSE Cast(c, R.val)
        is_signed == IF is_lower THEN is_signed_v(h) ELSE R.t.signed
    IN  signed_in_unsigned_value(c, value, is_signed)

\* slip: the frame returns by value (auto instead of decltype(auto))
find_lowest_forward_copy(o, h, i, R) ==
    LET is_lower == PlainCmp(o, h, R).out
        c        == CommonType(h.t, R.t)
    IN  Result("plain", c, IF is_lower THEN Cast(c, h.val) ELSE Cast(c, R.val),
               FALSE, "prvalue", 0, FALSE)

\* slip: the head also wins a tie (!less(right, l) for less(l, right))
find_lowest_forward_nonstrict(o, h, i, R) ==
    LET is_lower == ~CmpCall(o, TV(R.t, R.val), TV(h.t, h.val)).out
        c        == CommonType(h.t, R.t)
    IN  IF h.cat # "rvalue" /\ h.t = R.t
        THEN LET k == IF h.cat = "const_lvalue" \/ R.cat = "clref"
                      THEN "clref" ELSE "lref"
             IN  IF is_lower
                 THEN Result("plain", c, h.val, FALSE, k, i, FALSE)
                 ELSE Result("plain", c, R.val, FALSE, k, R.alias,
                             R.dangling \/ R.cat = "prvalue")
        ELSE Result("plain", c,
                    IF is_lower THEN Cast(c, h.val) ELSE Cast(c, R.val),
                    FALSE, "prvalue", 0, FALSE)

\* otherwise: return is_lower ? std::forward<L>(l) : right.
\* Two lvalues of one type give an lvalue (const when either is); anything
\* else gives a prvalue of the common type.  `right` is an lvalue naming
\* what the recursive call returned; when that was a prvalue it names a
\* temporary of this frame, and a reference to it dangles on return.
find_lowest_forward(o, h, i, R) ==
    LET is_lower == PlainCmp(o, h, R).out
        c        == CommonType(h.t, R.t)
    IN  IF h.cat # "rvalue" /\ h.t = R.t
        THEN LET k == IF h.cat = "const_lvalue" \/ R.cat = "clref"
                      THEN "clref" ELSE "lref"
             IN  IF is_lower
                 THEN Result("plain", c, h.val, FALSE, k, i, FALSE)
                 ELSE Result("plain", c, R.val, FALSE, k, R.alias,
                             R.dangling \/ R.cat = "prvalue")
        ELSE Result("plain", c,
                    IF is_lower THEN Cast(c, h.val) ELSE Cast(c, R.val),
                    FALSE, "prvalue", 0, FALSE)

\* which branch the frame compiles to
TakesTagged(h, R)  == R.kind = "siu"
TakesConvert(h, R) == R.kind = "plain" /\ is_integral_v(h)
                      /\ is_signed_v(h) # R.t.signed
TakesForward(h, R) == R.kind = "plain" /\ ~TakesConvert(h, R)

\* the static_asserts of the two converting branches: the conditional
\* expression must have an unsigned type
StepCompiles(h, R) ==
    (TakesTagged(h, R) \/ TakesConvert(h, R)) => ~CommonType(h.t, R.t).signed

find_lowest_step(o, h, i, R) ==
    IF TakesTagged(h, R) THEN find_lowest_tagged(o, h, i, R)
    ELSE IF TakesConvert(h, R) THEN find_lowest_convert(o, h, i, R)
    ELSE find_lowest_forward(o, h, i, R)

\* the whole recursion on the arguments i..Len(as), every read of a
\* dangling reference seeing the value last stored there
RECURSIVE find_lowest(_, _, _)
find_lowest(o, as, i) ==
    IF i = Len(as) THEN find_lowest_base(as[i], i)
    ELSE find_lowest_step(o, as[i], i, find_lowest(o, as, i + 1))

\* the call is well-formed: every frame passes its static_asserts
Compiles(as) ==
    \A i \in 1 .. Len(as) - 1 : StepCompiles(as[i], find_lowest("min", as, i + 1))

\* min / max: unwrap a signed_in_unsigned_value, forward anything else
Returned(t, v, c, a, d) ==
    [t |-> t, val |-> v, cat |-> c, alias |-> a, dangling |-> d]

NoRet == Returned(TInt, 0, "none", 0, FALSE)

\* slip: a flagged result is cast back to the signed type on the way out
minmax_return_signed(R) ==
    IF R.kind = "siu"
    THEN IF R.flag
         THEN Returned(make_signed(R.t), getOriginal(R), "prvalue", 0, FALSE)
         ELSE Returned(R.t, R.val, "prvalue", 0, FALSE)
    ELSE Returned(R.t, R.val, R.cat, R.alias, R.dangling)

minmax_return(R) ==
    IF R.kind = "siu"
    THEN Returned(R.t, R.val, "prvalue", 0, FALSE)
    ELSE Returned(R.t, R.val, R.cat, R.alias, R.dangling)

----------------------------------------------------------------------------
(* The calls explored *)

\* the values an argument of type t takes
ArgValues(t) == IF t.signed THEN {0 - 2, 1} ELSE {0, TMax(t)}

ArgDomain ==
    {[t |-> t, val |-> v, cat |-> c] : t \in Types, v \in 0 - 2 .. TMax(TULLong),
                                       c \in Cats}

Args == {a \in ArgDomain : a.val \in ArgValues(a.t)}

ArgLists == UNION {[1 .. n -> Args] : n \in 1 .. MaxArgs}

\* what a read through a dangling reference to an integer of type t that
\* held v can see: anything the dead storage may hold by then
Observable(t, v) == {v} \cup ArgValues(t)

Init ==
    /\ op \in {"min", "max"}
    /\ args \in {as \in ArgLists : Compiles(as)}
    /\ mem = [i \in 1 .. Len(args) |-> args[i].val]
    /\ pos = Len(args)
    /\ pc = "fold"
    /\ res = NoRes
    /\ ret = NoRet
    /\ cmp = NoCmp
    /\ drv = NoDrv

\* the frame of the last argument returns
FindLowestBase ==
    /\ pc = "fold" /\ pos = Len(args)
    /\ res' = find_lowest_base(args[pos], pos)
    /\ pos' = pos - 1
    /\ pc' = IF pos = 1 THEN "return" ELSE "fold"
    /\ UNCHANGED <<drv, op, args, mem, ret, cmp>>

FindLowestTagged ==
    /\ pc = "fold" /\ pos < Len(args)
    /\ TakesTagged(args[pos], res)
    /\ cmp' = TaggedCmp(op, args[pos], res)
    /\ res' = find_lowest_tagged(op, args[pos], pos, res)
    /\ pos' = pos - 1
    /\ pc' = IF pos = 1 THEN "return" ELSE "fold"
    /\ UNCHANGED <<drv, op, args, mem, ret>>

FindLowestConvert ==
    /\ pc = "fold" /\ pos < Len(args)
    /\ TakesConvert(args[pos], res)
    /\ cmp' = PlainCmp(op, args[pos], res)
    /\ res' = find_lowest_convert(op, args[pos], pos, res)
    /\ pos' = pos - 1
    /\ pc' = IF pos = 1 THEN "return" ELSE "fold"
    /\ UNCHANGED <<drv, op, args, mem, ret>>

\* a reference that starts to dangle here is read later, by the caller's
\* frame or by the caller: what is read then is not determined
FindLowestForward ==
    /\ pc = "fold" /\ pos < Len(args)
    /\ TakesForward(args[pos], res)
    /\ cmp' = PlainCmp(op, args[pos], res)
    /\ LET out == find_lowest_forward(op, args[pos], pos, res)
       IN  IF out.dangling /\ ~res.dangling
           THEN \E g \in Observable(out.t, out.val) :
                    res' = [out EXCEPT !.val = g]
           ELSE res' = out
    /\ pos' = pos - 1
    /\ pc' = IF pos = 1 THEN "return" ELSE "fold"
    /\ UNCHANGED <<drv, op, args, mem, ret>>

\* min / max hand the result to the caller
Return ==
    /\ pc = "return"
    /\ ret' = minmax_return(res)
    /\ pc' = "done"
    /\ UNCHANGED <<drv, op, args, mem, pos, res, cmp>>

\* the caller writes through a mutable reference it got back: ++min(...).
\* Incrementing a signed integer at its maximum is undefined and not
\* modelled; a write through a dangling reference lands in dead storage,
\* which may by then be any live object or none.
IncrementResult ==
    /\ pc = "done" /\ ret.cat = "lref"
    /\ IF ret.dangling
       THEN /\ \E k \in 0 .. Len(args) :
                  mem' = [j \in 1 .. Len(args) |->
                            IF j = k THEN Cast(args[j].t, mem[j] + 1) ELSE mem[j]]
            /\ ret' = ret
       ELSE /\ ~(ret.t.signed /\ mem[ret.alias] = TMax(ret.t))
            /\ mem' = [mem EXCEPT ![ret.alias] = Cast(ret.t, @ + 1)]
            /\ ret' = [ret EXCEPT !.val = Cast(ret.t, mem[ret.alias] + 1)]
    /\ pc' = "incremented"
    /\ UNCHANGED <<drv, op, args, pos, res, cmp>>

Next ==
    \/ FindLowestBase
    \/ FindLowestTagged
    \/ FindLowestConvert
    \/ FindLowestForward
    \/ Return
    \/ IncrementResult

Spec == Init /\ [][Next]_vars

----------------------------------------------------------------------------
(* The comparison functors on their own, over every pair of integers *)

TypedValues == {tv \in [t : Types, val : TMin(TLLong) .. TMax(TULLong)] :
                    tv.val \in RangeOf(tv.t)}

InitCmp ==
    /\ op = "none"
    /\ args \in {<<[t |-> l.t, val |-> l.val, cat |-> "rvalue"],
                    [t |-> r.t, val |-> r.val, cat |-> "rvalue"]>> :
                     l \in TypedValues, r \in TypedValues}
    /\ mem = [i \in 1 .. 2 |-> args[i].val]
    /\ pos = 0
    /\ pc = "cmp"
    /\ res = NoRes
    /\ ret = NoRet
    /\ cmp = NoCmp
    /\ drv = NoDrv

CallLowerThan ==
    /\ pc = "cmp"
    /\ cmp' = CmpCall("min", TV(args[1].t, args[1].val), TV(args[2].t, args[2].val))
    /\ pc' = "cmpdone"
    /\ UNCHANGED <<drv, op, args, mem, pos, res, ret>>

CallHigherThan ==
    /\ pc = "cmp"
    /\ cmp' = CmpCall("max", TV(args[1].t, args[1].val), TV(args[2].t, args[2].val))
    /\ pc' = "cmpdone"
    /\ UNCHANGED <<drv, op, args, mem, pos, res, ret>>

NextCmp == CallLowerThan \/ CallHigherThan

SpecCmp == InitCmp /\ [][NextCmp]_vars

----------------------------------------------------------------------------
(* The driver, main() of minmax.cpp.  args holds the integers atoi reads   *)
(* from argv[1..argc-1]; mem holds the variables a, b, c once they exist.  *)

\* iterations of the loop
LoopCount == 10

\* the entry point the loop calls
DriverCall == "min"

\* what atoi yields for the command-line words explored
DriverValues == {TMin(TInt), 0 - 2, 0, 1}

DriverArgv ==
    UNION {[1 .. n -> {[t |-> TInt, val |-> v, cat |-> "lvalue"] : v \in DriverValues}] :
              n \in 0 .. MaxArgs + 1}

\* a, b, c as passed to the call: three mutable int variables
DriverVars(m) == [k \in 1 .. 3 |-> [t |-> TInt, val |-> m[k], cat |-> "lvalue"]]

InitMain ==
    /\ op = DriverCall
    /\ args \in DriverArgv
    /\ mem = <<>>
    /\ pos = 0
    /\ pc = "main"
    /\ res = NoRes
    /\ ret = NoRet
    /\ cmp = NoCmp
    /\ drv = NoDrv

\* argc != 4: return EXIT_FAILURE
MainReject ==
    /\ pc = "main" /\ Len(args) + 1 # 4
    /\ drv' = [drv EXCEPT !.status = "EXIT_FAILURE"]
    /\ pc' = "exited"
    /\ UNCHANGED <<op, args, mem, pos, res, ret, cmp>>

\* a, b, c are read and the first line is written
MainParse ==
    /\ pc = "main" /\ Len(args) + 1 = 4
    /\ mem' = <<args[1].val, args[2].val, args[3].val>>
    /\ drv' = [drv EXCEPT !.lines = 1]
    /\ pc' = "loop"
    /\ UNCHANGED <<op, args, pos, res, ret, cmp>>

\* one iteration: the whole call, the increment through the reference it
\* returns, and the line written.  Incrementing an int that holds INT_MAX is
\* undefined: the variable may then hold anything.
MainIterate ==
    /\ pc = "loop" /\ drv.i < LoopCount
    /\ LET r == minmax_return(find_lowest(op, DriverVars(mem), 1))
       IN  /\ IF mem[r.alias] = TMax(TInt)
              THEN \E v \in RangeOf(TInt) : mem' = [mem EXCEPT ![r.alias] = v]
              ELSE mem' = [mem EXCEPT ![r.alias] = @ + 1]
           /\ ret' = [r EXCEPT !.val = mem'[r.alias]]
    /\ drv' = [drv EXCEPT !.i = @ + 1, !.lines = @ + 1]
    /\ UNCHANGED <<op, args, pos, pc, res, cmp>>

\* the loop is over: return EXIT_SUCCESS
MainExit ==
    /\ pc = "loop" /\ drv.i = LoopCount
    /\ drv' = [drv EXCEPT !.status = "EXIT_SUCCESS"]
    /\ pc' = "exited"
    /\ UNCHANGED <<op, args, mem, pos, res, ret, cmp>>

NextMain == MainReject \/ MainParse \/ MainIterate \/ MainExit

SpecMain == InitMain /\ [][NextMain]_vars

----------------------------------------------------------------------------
(* What the arguments mean *)

SetMin(S) == CHOOSE x \in S : \A y \in S : x <= y
SetMax(S) == CHOOSE x \in S : \A y \in S : x >= y

\* the true extremum of the arguments from..Len(as), each read as the integer
\* it holds
Extremum(o, as, from) ==
    LET S == {as[i].val : i \in from .. Len(as)}
    IN  IF o = "min" THEN SetMin(S) ELSE SetMax(S)

TrueExtremum == Extremum(op, args, 1)

\* the indices of the arguments holding the extremum
Extremes == {i \in 1 .. Len(args) : args[i].val = TrueExtremum}

\* a == b as the language evaluates it on two integers
EqualValue(a, b) ==
    LET c == CommonType(a.t, b.t) IN Cast(c, a.val) = Cast(c, b.val)

\* the integer an intermediate result stands for: getOriginal() when it is
\* flagged as originally signed, its value in its own type otherwise
Denotes(R) == IF R.kind = "siu" /\ R.flag THEN getOriginal(R) ELSE R.val

AllOfCat(C)  == \A i \in 1 .. Len(args) : args[i].cat \in C
AllSameType  == \A i \in 1 .. Len(args) : args[i].t = args[1].t
TypesUsed    == {args[i].t : i \in 1 .. Len(args)}

----------------------------------------------------------------------------
(* Claims *)

\* C1: for every well-formed call, whatever the signedness, widths and value
\* categories of the arguments, what min / max returns equals the true
\* minimum / maximum of the arguments.  Stated in its weakest reading:
\* "equals" is the language's ==, so a negative extremum returned in an
\* unsigned type counts as equal when it is that extremum modulo 2^width.
C1_ReturnsTrueExtremum ==
    pc = "done" => ret.val = Cast(ret.t, TrueExtremum)

\* C2: lower_than(l, r) answers true exactly when the integer l holds is
\* strictly less than the integer r holds, for every pair of types and
\* values; higher_than(l, r) is that relation with the operands swapped.
C2_LowerThanIsTrueOrder ==
    pc = "cmpdone" =>
        /\ cmp.f = "lower_than"  => (cmp.out <=> cmp.l.val < cmp.r.val)
        /\ cmp.f = "higher_than" => (cmp.out <=> cmp.r.val < cmp.l.val)
        /\ (cmp.f = "lower_than" /\ cmp.l.t.signed /\ ~cmp.r.t.signed
              /\ cmp.l.val < 0) => cmp.out
        /\ (cmp.f = "lower_than" /\ ~cmp.l.t.signed /\ cmp.r.t.signed
              /\ cmp.r.val < 0) => ~cmp.out

\* C2 witness: a negative int was compared with the largest unsigned long
\* long, whose bit pattern it shares once converted, and found lower
C2_Witness ==
    /\ pc = "cmpdone" /\ cmp.f = "lower_than" /\ cmp.out
    /\ cmp.l = TV(TInt, 0 - 1) /\ cmp.r = TV(TULLong, TMax(TULLong))

\* C3: when every argument has the same type and is a mutable named
\* variable, min / max return a mutable reference to exactly one argument,
\* that argument holds the extremum, and an increment through the reference
\* changes that argument only.
C3_Pre == AllSameType /\ AllOfCat({"lvalue"})

C3_AliasesOneArgument ==
    (C3_Pre /\ pc \in {"done", "incremented"}) =>
        /\ ret.cat = "lref" /\ ~ret.dangling
        /\ ret.alias \in 1 .. Len(args)
        /\ args[ret.alias].val = TrueExtremum
        /\ \A j \in 1 .. Len(args) :
              mem[j] = IF pc = "incremented" /\ j = ret.alias
                       THEN Cast(args[j].t, args[j].val + 1)
                       ELSE args[j].val

\* C3 witness: ++max(a, b, c) on three int variables has incremented the
\* middle one, the only one holding the maximum
C3_Witness ==
    /\ C3_Pre /\ pc = "incremented" /\ op = "max" /\ Len(args) = 3
    /\ args[1].t = TInt /\ Extremes = {2} /\ ret.alias = 2
    /\ mem[2] = args[2].val + 1 /\ mem[1] = args[1].val /\ mem[3] = args[3].val

\* C4: for temporaries of types int and unsigned int, at least one of each,
\* min / max return an unsigned int holding the true extremum modulo 2^w: a
\* negative minimum m comes back as 2^w + m, a non-negative extremum as is.
C4_Pre == AllOfCat({"rvalue"}) /\ TypesUsed = {TInt, TUInt}

C4_UnsignedModulo ==
    (C4_Pre /\ pc = "done") =>
        /\ ret.t = TUInt /\ ret.cat = "prvalue"
        /\ ret.val = IF TrueExtremum < 0
                     THEN Pow2(IntBits) + TrueExtremum
                     ELSE TrueExtremum

\* C4 witness: min(1, -2, 0u): the negative minimum was carried, tagged,
\* past a further signed argument and came back as 2^w - 2
C4_Witness ==
    /\ C4_Pre /\ pc = "done" /\ op = "min" /\ Len(args) = 3
    /\ args[1].val = 1 /\ args[2].val = 0 - 2 /\ args[3].t = TUInt
    /\ ret.val = Pow2(IntBits) - 2

\* the argument lists that are the current one reordered
Reorderings ==
    LET n == Len(args)
    IN  {[i \in 1 .. n |-> args[f[i]]] :
            f \in {g \in [1 .. n -> 1 .. n] : \A i, j \in 1 .. n : g[i] = g[j] => i = j}}

\* C5: for every reordering of the arguments, min / max return a value equal
\* to the one returned for the original order.
C5_OrderIndependent ==
    pc = "done" =>
        \A as \in Reorderings :
            Compiles(as) => EqualValue(minmax_return(find_lowest(op, as, 1)), ret)

\* C6 as stated: a top-level result flagged as originally signed is handed
\* to the caller reinterpreted as signed; an unflagged one as the unsigned
\* common type.
C6_FlaggedReturnedSigned ==
    (pc = "done" /\ res.kind = "siu") =>
        IF res.flag
        THEN ret.t = make_signed(res.t) /\ ret.val = getOriginal(res)
        ELSE ret.t = res.t /\ ret.val = res.val

\* C6 amended: a top-level signed_in_unsigned_value is handed to the caller
\* as its unsigned value member in the unsigned common type, flagged or
\* not; the flag is dropped and nothing is reinterpreted as signed.
C6_AlwaysReturnedUnsigned ==
    (pc = "done" /\ res.kind = "siu") =>
        /\ ret.t = res.t /\ ~ret.t.signed
        /\ ret.val = res.val /\ ret.val >= 0
        /\ ret.cat = "prvalue"

\* C6 witness: a call ended with a flagged result standing for a negative
\* integer
C6_Witness ==
    /\ pc = "done" /\ res.kind = "siu" /\ res.flag /\ getOriginal(res) < 0
    /\ ret.val = res.val

\* C7: min(x) and max(x) return x itself: the same type and value, as a
\* reference to x's storage, without any comparison.
C7_SingleArgumentIsItself ==
    (Len(args) = 1 /\ pc \in {"done", "incremented"}) =>
        /\ ret.t = args[1].t /\ ret.alias = 1 /\ ~ret.dangling
        /\ ret.cat = RefCat(args[1].cat)
        /\ ret.val = mem[1]
        /\ pc = "done" => ret.val = args[1].val
        /\ cmp = NoCmp

\* C7 witness: ++min(x) on a named variable has changed x
C7_Witness ==
    /\ Len(args) = 1 /\ pc = "incremented" /\ op = "min"
    /\ args[1].cat = "lvalue" /\ mem[1] = args[1].val + 1

\* C8: after every frame of find_lowest the intermediate result stands for
\* the true extremum of the arguments folded so far: getOriginal() when it
\* is flagged as originally signed, its value in its own type otherwise.
C8_IntermediateIsSuffixExtremum ==
    (pc \in {"fold", "return"} /\ res.kind # "none") =>
        Denotes(res) = Extremum(op, args, pos + 1)

\* C9: a frame whose head and tail result are not integers of differing
\* signedness returns a reference to the chosen original argument, of that
\* argument's own reference category, never a new value.
C9_NoConversionForwardsAlias ==
    [][(pc = "fold" /\ pos < Len(args) /\ res.kind = "plain"
          /\ args[pos].t.signed = res.t.signed)
        => /\ res'.alias \in 1 .. Len(args)
           /\ ~res'.dangling
           /\ res'.cat = RefCat(args[res'.alias].cat)]_vars

\* C10: when several same-type named variables hold the extremum, min and
\* max both return a reference to the rightmost of them.
C10_Pre == AllSameType /\ AllOfCat({"lvalue", "const_lvalue"})

C10_TieGoesToRightmost ==
    (C10_Pre /\ pc = "done") =>
        /\ ~ret.dangling
        /\ ret.alias = SetMax(Extremes)

\* C10 witness: the first two of three variables tie for the extremum and
\* the second is the one returned
C10_Witness ==
    /\ C10_Pre /\ pc = "done" /\ Len(args) = 3
    /\ Extremes = {1, 2} /\ ret.alias = 2

\* the largest of the driver's three variables
DriverMax(m) == SetMax({m[k] : k \in 1 .. 3})

\* C11: started with exactly three integers, each of the 10 iterations
\* increments by one exactly one of a, b, c, the one holding the maximum of
\* the three at that moment, and leaves the other two unchanged, and the
\* program then exits with success; with any other argument count it exits
\* with failure without changing or writing anything.
C11_DriverIncrementsMaximum ==
    [][/\ (pc = "loop" /\ drv.i < LoopCount) =>
            \E k \in 1 .. 3 :
                /\ mem[k] = DriverMax(mem)
                /\ mem' = [mem EXCEPT ![k] = @ + 1]
       /\ (pc = "loop" /\ drv.i = LoopCount) => drv'.status = "EXIT_SUCCESS"
       /\ (pc = "main" /\ Len(args) # 3) =>
            /\ drv'.status = "EXIT_FAILURE"
            /\ mem' = mem /\ drv'.lines = 0]_vars

====
